---- MODULE Spec2Model ----
(***************************************************************************)
(* Model of app.py, the eBay seller analysis dashboard.                    *)
(*                                                                         *)
(* Text is modelled as a sequence of one-character strings.  A Japanese    *)
(* character is written as its code point ("U4FA1" is one character).      *)
(* A table cell is NaN, a string Str(s) or a number Num(n); numbers are    *)
(* held in hundredths (Num(750) is 7.50).                                  *)
(***************************************************************************)
EXTENDS Integers, Sequences, FiniteSets, TLC

\* ------------------------------------------------------------------ bounds
MaxCols == 2
MaxRows == 2
MaxFailedAttempts == 2

\* ---------------------------------------------------------- text helpers
UpperChars == <<"A","B","C","D","E","F","G","H","I","J","K","L","M",
                "N","O","P","Q","R","S","T","U","V","W","X","Y","Z">>
LowerChars == <<"a","b","c","d","e","f","g","h","i","j","k","l","m",
                "n","o","p","q","r","s","t","u","v","w","x","y","z">>
Digits == {"0","1","2","3","4","5","6","7","8","9"}

\* str.lower() on one character
LowerChar(c) ==
  IF \E i \in 1..26 : UpperChars[i] = c
  THEN LowerChars[CHOOSE i \in 1..26 : UpperChars[i] = c]
  ELSE c

\* str.lower()
Lower(s) == [i \in 1..Len(s) |-> LowerChar(s[i])]

\* Python's `kw in s` on strings
Contains(s, kw) ==
  \E i \in 0..(Len(s) - Len(kw)) : \A j \in 1..Len(kw) : s[i + j] = kw[j]

\* ------------------------------------------------------------- cells
NaN == [k |-> "nan"]
Str(s) == [k |-> "str", s |-> s]
Num(n) == [k |-> "num", n |-> n]
IsNaN(c) == c.k = "nan"

\* --------------------------------------------- canonical column names
ShohinMei == <<"U5546","U54C1","U540D">>
Kakaku == <<"U4FA1","U683C">>
Shuppinsha == <<"U51FA","U54C1","U8005">>
Jotai == <<"U72B6","U614B">>
ShuppinNichiji == <<"U51FA","U54C1","U65E5","U6642">>
ColURL == <<"U","R","L">>
Category == <<"U30AB","U30C6","U30B4","U30EA","U30FC">>

\* The keyword groups of the if/elif chain, in its order.
KeywordGroups == <<
  [canon |-> ShohinMei,
   keywords |-> { <<"U5546","U54C1">>, <<"p","r","o","d","u","c","t">>,
                  <<"i","t","e","m">>, <<"t","i","t","l","e">>,
                  <<"n","a","m","e">> }],
  [canon |-> Kakaku,
   keywords |-> { <<"U4FA1","U683C">>, <<"p","r","i","c","e">>,
                  <<"c","o","s","t">>, <<"U5186">> }],
  [canon |-> Shuppinsha,
   keywords |-> { <<"U51FA","U54C1","U8005">>, <<"s","e","l","l","e","r">>,
                  <<"s","t","o","r","e">>, <<"s","h","o","p">> }],
  [canon |-> Jotai,
   keywords |-> { <<"U72B6","U614B">>, <<"c","o","n","d","i","t","i","o","n">>,
                  <<"s","t","a","t","u","s">>, <<"s","t","a","t","e">> }],
  [canon |-> ShuppinNichiji,
   keywords |-> { <<"U51FA","U54C1","U65E5">>, <<"d","a","t","e">>,
                  <<"t","i","m","e">>, <<"U65E5","U6642">>,
                  <<"U767B","U9332">> }],
  [canon |-> ColURL,
   keywords |-> { <<"u","r","l">>, <<"l","i","n","k">>, <<"h","r","e","f">> }],
  [canon |-> Category,
   keywords |-> { <<"U30AB","U30C6","U30B4","U30EA">>,
                  <<"c","a","t","e","g","o","r","y">>,
                  <<"t","y","p","e">>, <<"U5206","U985E">> }]
>>

\* any(keyword in col_str for keyword in [...]) for group g
GroupMatches(g, col_str) ==
  \E kw \in KeywordGroups[g].keywords : Contains(col_str, kw)

\* (mutant) the branches as separate ifs: the last group that matches wins
RECURSIVE ElifChain_LastWins(_, _)
ElifChain_LastWins(g, col_str) ==
  IF g > Len(KeywordGroups) THEN << >>
  ELSE LET later == ElifChain_LastWins(g + 1, col_str)
       IN IF later # << >> THEN later
          ELSE IF GroupMatches(g, col_str) THEN KeywordGroups[g].canon
          ELSE << >>

\* The if/elif chain from branch g on: the canonical name the header gets, or
\* <<>> when no branch is taken (the header is then not put in the dict).
RECURSIVE ElifChain(_, _)
ElifChain(g, col_str) ==
  IF g > Len(KeywordGroups) THEN << >>
  ELSE IF GroupMatches(g, col_str) THEN KeywordGroups[g].canon
  ELSE ElifChain(g + 1, col_str)

\* One iteration of `for col in df.columns`: the dict after it.
NormalizeStep(normalized_columns, col) ==
  LET target == ElifChain(1, Lower(col))
  IN IF target = << >> THEN normalized_columns
     ELSE [c \in (DOMAIN normalized_columns) \cup {col} |->
             IF c = col THEN target ELSE normalized_columns[c]]

\* The whole loop over df.columns, building normalized_columns.
RECURSIVE BuildNormalized(_, _, _)
BuildNormalized(columns, i, normalized_columns) ==
  IF i > Len(columns) THEN normalized_columns
  ELSE BuildNormalized(columns, i + 1,
                       NormalizeStep(normalized_columns, columns[i]))

\* df.rename(columns=mapping): every label in the mapping is replaced.
Rename(columns, mapping) ==
  [i \in 1..Len(columns) |->
     IF columns[i] \in DOMAIN mapping THEN mapping[columns[i]] ELSE columns[i]]

EmptyDict == [c \in {} |-> << >>]

NormalizeColumns(columns) ==
  Rename(columns, BuildNormalized(columns, 1, EmptyDict))


\* ------------------------------------------------------- the data frame
\* A data frame is [columns |-> labels, rows |-> rows]; a row keeps its index
\* label (idx), which filtering and copying preserve.
ColumnPositions(columns, label) == {i \in 1..Len(columns) : columns[i] = label}
HasColumn(columns, label) == ColumnPositions(columns, label) # {}
ColumnAt(columns, label) == CHOOSE i \in ColumnPositions(columns, label) : TRUE

\* df[label] = values, for a label that names one column
SetColumn(df, label, values) ==
  [df EXCEPT !.rows =
     [r \in 1..Len(df.rows) |->
        [df.rows[r] EXCEPT !.cells[ColumnAt(df.columns, label)] = values[r]]]]

\* df[label], for a label that names one column
GetColumn(df, label) ==
  [r \in 1..Len(df.rows) |-> df.rows[r].cells[ColumnAt(df.columns, label)]]

\* ----------------------------------------------------- price cleaning
DigitChars == <<"0","1","2","3","4","5","6","7","8","9">>
DigitVal(ch) == (CHOOSE i \in 1..10 : DigitChars[i] = ch) - 1

\* the complement of the character class [^\d.]
IsPriceChar(ch) == ch \in Digits \cup {"."}

RECURSIVE DigitsValue(_)
DigitsValue(s) ==
  IF Len(s) = 0 THEN 0
  ELSE 10 * DigitsValue(SubSeq(s, 1, Len(s) - 1)) + DigitVal(s[Len(s)])

\* pd.to_numeric(errors='coerce') on a string of digits and dots: a number when
\* there is at most one dot and at least one digit, else missing.  The value is
\* kept in hundredths, from the first two fractional digits.
ToNumeric(s) ==
  LET dots == {i \in 1..Len(s) : s[i] = "."}
  IN IF Cardinality(dots) > 1 \/ Cardinality(dots) = Len(s) THEN NaN
     ELSE IF dots = {} THEN Num(100 * DigitsValue(s))
     ELSE LET d == CHOOSE i \in dots : TRUE
              frac == SubSeq(s, d + 1, Len(s)) \o <<"0","0">>
          IN Num(100 * DigitsValue(SubSeq(s, 1, d - 1))
                 + DigitsValue(SubSeq(frac, 1, 2)))

\* fillna('').astype(str), str.replace(r'[^\d.]', ''), replace('', NA),
\* to_numeric(errors='coerce') on one cell
CleanPriceCell(c) ==
  LET text == IF IsNaN(c) THEN << >> ELSE c.s
      kept == SelectSeq(text, IsPriceChar)
  IN IF kept = << >> THEN NaN ELSE ToNumeric(kept)

\* pd.to_datetime(errors='coerce') on one cell: a four-digit year parses, any
\* other text of the model becomes missing (NaT).
ToDatetimeCell(c) ==
  IF IsNaN(c) THEN NaN
  ELSE IF Len(c.s) = 4 /\ \A i \in 1..4 : c.s[i] \in Digits
       THEN [k |-> "ts", year |-> DigitsValue(c.s)]
       ELSE NaN

\* The loop that renames the price columns after the first:
\*   for i, col in enumerate(price_columns[1:], 1):
\*       df = df.rename(columns={col: f'Kakaku_{i}'})
\* col is the label, so each rename acts on every column that bears it.
RECURSIVE RenameLaterPrices(_, _, _)
RenameLaterPrices(columns, i, n) ==
  IF i > n THEN columns
  ELSE RenameLaterPrices(
         Rename(columns, [c \in {Kakaku} |-> Kakaku \o <<"_", DigitChars[i + 1]>>]),
         i + 1, n)

\* df['Shuppinsha'].value_counts(): seller -> count, missing sellers left out
ValueCounts(df, label) ==
  LET p == ColumnAt(df.columns, label)
      present == {r \in 1..Len(df.rows) : ~IsNaN(df.rows[r].cells[p])}
      keys == {df.rows[r].cells[p].s : r \in present}
  IN [s \in keys |->
        Cardinality({r \in present : df.rows[r].cells[p].s = s})]

NoSellers == [s \in {} |-> 0]

\* --------------------------------------------------- candidate encodings
encodings_to_try(encoding) == <<"utf-8-sig", "cp932", "shift-jis", "utf-8", encoding>>

\* (mutant) a candidate whose header probe succeeds is taken as read
RECURSIVE TryEncodings_ProbeOnly(_, _, _, _)
TryEncodings_ProbeOnly(file, i, attempted, error_messages) ==
  LET encs == encodings_to_try(file.detected)
  IN IF i > Len(encs)
     THEN [found |-> FALSE, enc |-> "None",
           attempted |-> attempted, error_messages |-> error_messages]
     ELSE IF encs[i] = "None"
     THEN TryEncodings_ProbeOnly(file, i + 1, attempted, error_messages)
     ELSE IF encs[i] \in file.probe_ok
     THEN [found |-> TRUE, enc |-> encs[i],
           attempted |-> Append(attempted, encs[i]),
           error_messages |-> error_messages]
     ELSE TryEncodings_ProbeOnly(file, i + 1, Append(attempted, encs[i]),
                                 Append(error_messages, encs[i]))

\* The for-loop over encodings_to_try from position i on.  A candidate supplies
\* the table when the 5-row header probe and the full read both succeed.
RECURSIVE TryEncodings(_, _, _, _)
TryEncodings(file, i, attempted, error_messages) ==
  LET encs == encodings_to_try(file.detected)
  IN IF i > Len(encs)
     THEN [found |-> FALSE, enc |-> "None",
           attempted |-> attempted, error_messages |-> error_messages]
     ELSE IF encs[i] = "None"
     THEN TryEncodings(file, i + 1, attempted, error_messages)
     ELSE IF encs[i] \in file.probe_ok /\ encs[i] \in file.full_ok
     THEN [found |-> TRUE, enc |-> encs[i],
           attempted |-> Append(attempted, encs[i]),
           error_messages |-> error_messages]
     ELSE TryEncodings(file, i + 1, Append(attempted, encs[i]),
                       Append(error_messages, encs[i]))

\* ------------------------------------------------- load_and_analyze_data
EmptyDF == [columns |-> << >>, rows |-> << >>]

\* What one call of load_and_analyze_data did.  ret is "ok" (it returned the
\* table and the sellers), "none" (it returned (None, None)) or "raise" (an
\* exception left the routine).  failed_at names the statement that raised.
LoadResult(ret, failed_at, error_shown, enc, df, sellers, shown_columns) ==
  [ret |-> ret, failed_at |-> failed_at, error_shown |-> error_shown,
   found |-> enc.found, enc |-> enc.enc, attempted |-> enc.attempted,
   error_messages |-> enc.error_messages,
   df |-> df, sellers |-> sellers, shown_columns |-> shown_columns]

NoEncodingTried ==
  [found |-> FALSE, enc |-> "None", attempted |-> << >>, error_messages |-> << >>]

\* The except clause of the routine (lines 190-195).  It reports the error and
\* then reads file_content and encoding; when the failing statement ran before
\* one of them was bound, that read raises and the exception leaves the routine.
ExceptClause(failed_at, enc, shown_columns) ==
  LoadResult(IF failed_at \in {"read", "detect"} THEN "raise" ELSE "none",
             failed_at, TRUE, enc, EmptyDF, NoSellers, shown_columns)

\* pd.read_csv(..., dtype=str): every cell a string, an empty field missing
ReadCsv(file) ==
  [columns |-> file.headers,
   rows |-> [r \in 1..Len(file.rows) |-> [idx |-> r, cells |-> file.rows[r]]]]

\* Lines 145-172 on a table that has a price column.  ok is FALSE when the
\* handler of the inner try raised in its turn (df[Kakaku] at line 172).
PriceProcessing(df) ==
  LET price_columns == ColumnPositions(df.columns, Kakaku)
      renamed == IF Cardinality(price_columns) > 1
                 THEN [df EXCEPT !.columns =
                         RenameLaterPrices(df.columns, 1,
                                           Cardinality(price_columns) - 1)]
                 ELSE df
  IN IF HasColumn(renamed.columns, Kakaku)
     THEN [ok |-> TRUE,
           df |-> SetColumn(renamed, Kakaku,
                            [r \in 1..Len(renamed.rows) |->
                               CleanPriceCell(GetColumn(renamed, Kakaku)[r])])]
     ELSE [ok |-> FALSE, df |-> renamed]

\* Lines 141-143: to_datetime of the listing-time column; it raises on a
\* selection of several columns.
DatetimeProcessing(df) ==
  IF ~HasColumn(df.columns, ShuppinNichiji) THEN [ok |-> TRUE, df |-> df]
  ELSE IF Cardinality(ColumnPositions(df.columns, ShuppinNichiji)) > 1
  THEN [ok |-> FALSE, df |-> df]
  ELSE [ok |-> TRUE,
        df |-> SetColumn(df, ShuppinNichiji,
                         [r \in 1..Len(df.rows) |->
                            ToDatetimeCell(GetColumn(df, ShuppinNichiji)[r])])]

\* Lines 174-188: the seller counts and the return of the table.
SellerCounting(enc, shown_columns, pr) ==
  IF ~pr.ok THEN ExceptClause("price", enc, shown_columns)
  ELSE LoadResult("ok", "", FALSE, enc, pr.df,
                  IF HasColumn(pr.df.columns, Shuppinsha)
                  THEN ValueCounts(pr.df, Shuppinsha) ELSE NoSellers,
                  shown_columns)

\* Lines 145-146: the price column is processed when the table has one.
AfterDatetime(enc, shown_columns, dt) ==
  IF ~dt.ok THEN ExceptClause("to_datetime", enc, shown_columns)
  ELSE SellerCounting(enc, shown_columns,
                      IF HasColumn(dt.df.columns, Kakaku)
                      THEN PriceProcessing(dt.df)
                      ELSE [ok |-> TRUE, df |-> dt.df])

\* Lines 139-143: the normalized columns are shown, then the preprocessing.
AfterNormalize(enc, df) ==
  AfterDatetime(enc, df.columns, DatetimeProcessing(df))

\* Lines 104-138: no table raises; else the columns are normalized.
AfterEncodings(file, enc) ==
  IF ~enc.found THEN ExceptClause("encodings", enc, << >>)
  ELSE AfterNormalize(enc, [columns |-> NormalizeColumns(file.headers),
                            rows |-> ReadCsv(file).rows])

load_and_analyze_data(file) ==
  IF file.read_fails THEN ExceptClause("read", NoEncodingTried, << >>)
  ELSE IF file.detect_fails THEN ExceptClause("detect", NoEncodingTried, << >>)
  ELSE AfterEncodings(file, TryEncodings(file, 1, << >>, << >>))

\* ------------------------------------------------------- analyze_seller
\* df[df[Shuppinsha] == seller_name].copy()
SellerRows(df, seller_name) ==
  LET p == ColumnAt(df.columns, Shuppinsha)
      IsSeller(row) == row.cells[p].k = "str" /\ row.cells[p].s = seller_name
  IN SelectSeq(df.rows, IsSeller)

\* the non-missing values of a column of the rows
PresentValues(columns, rows, label) ==
  LET p == ColumnAt(columns, label)
  IN [r \in {r \in 1..Len(rows) : ~IsNaN(rows[r].cells[p])} |-> rows[r].cells[p].n]

RECURSIVE SumOver(_, _)
SumOver(f, S) ==
  IF S = {} THEN 0
  ELSE LET x == CHOOSE x \in S : TRUE IN f[x] + SumOver(f, S \ {x})

\* len, mean, min and max of the seller's prices; the mean is kept as the
\* sum and the count, and the three are missing when no price is present.
Stats(columns, rows) ==
  LET v == PresentValues(columns, rows, Kakaku)
      D == DOMAIN v
  IN [sou_shuppin_su |-> Len(rows),
      heikin_kakaku |-> IF D = {} THEN NaN
                        ELSE [k |-> "mean", sum |-> SumOver(v, D), count |-> Cardinality(D)],
      saiyasune |-> IF D = {} THEN NaN
                    ELSE Num(CHOOSE m \in {v[r] : r \in D} : \A r \in D : m <= v[r]),
      saikoune |-> IF D = {} THEN NaN
                   ELSE Num(CHOOSE m \in {v[r] : r \in D} : \A r \in D : m >= v[r])]

\* bins=[0, 10, 20, 30, 40, 50, 75, 100, inf], in hundredths; the last edge,
\* infinity, is the open end of bucket 8.
price_ranges == <<0, 1000, 2000, 3000, 4000, 5000, 7500, 10000>>
price_labels == <<"$0-10", "$10-20", "$20-30", "$30-40", "$40-50", "$50-75",
                  "$75-100", "$100+">>

\* pd.cut on one value: the bucket (lo, hi] that holds it, 0 when none does
Cut(c) ==
  IF IsNaN(c) THEN 0
  ELSE LET hit == {b \in 1..Len(price_labels) :
                     /\ price_ranges[b] < c.n
                     /\ (b = Len(price_labels) \/ c.n <= price_ranges[b + 1])}
       IN IF hit = {} THEN 0 ELSE CHOOSE b \in hit : TRUE

\* price_dist.value_counts().sort_index(): the count of every label
PriceAnalysis(columns, rows) ==
  LET p == ColumnAt(columns, Kakaku)
  IN [b \in 1..Len(price_labels) |->
        Cardinality({r \in 1..Len(rows) : Cut(rows[r].cells[p]) = b})]

\* the category column: the first of Category, Jotai that the table has
\* (the other two names of the list cannot survive the normalization)
CategoryColumn(columns) ==
  IF HasColumn(columns, Category) THEN Category
  ELSE IF HasColumn(columns, Jotai) THEN Jotai ELSE << >>

CategoryCounts(columns, rows) ==
  LET col == CategoryColumn(columns)
      p == ColumnAt(columns, col)
      present == {r \in 1..Len(rows) : ~IsNaN(rows[r].cells[p])}
  IN IF col # << >> /\ present # {}
     THEN LET keys == {rows[r].cells[p].s : r \in present}
          IN [c \in keys |-> Cardinality({r \in present : rows[r].cells[p].s = c})]
     ELSE [c \in {<<"U305D","U306E","U4ED6">>} |-> Len(rows)]

\* analyze_seller raises KeyError at line 204 on a table without a price
\* column.  df is the table it was given, as the call leaves it: the routine
\* works on a copy of the selected rows.
analyze_seller(df, seller_name) ==
  IF ~HasColumn(df.columns, Kakaku)
  THEN [ok |-> FALSE, df |-> df,
        seller_df |-> [columns |-> df.columns, rows |-> SellerRows(df, seller_name)]]
  ELSE [ok |-> TRUE, df |-> df,
        seller_df |-> [columns |-> df.columns, rows |-> SellerRows(df, seller_name)],
        stats |-> Stats(df.columns, SellerRows(df, seller_name)),
        category_counts |-> CategoryCounts(df.columns, SellerRows(df, seller_name)),
        price_analysis |-> PriceAnalysis(df.columns, SellerRows(df, seller_name))]

\* prepare_download_data: every object column becomes text in place, a missing
\* value the text "nan"; the numeric and the datetime column are left alone.
AsTypeStr(c) == IF IsNaN(c) THEN Str(<<"n","a","n">>) ELSE c

prepare_download_data(df) ==
  [df EXCEPT !.rows =
     [r \in 1..Len(df.rows) |->
        [df.rows[r] EXCEPT !.cells =
           [i \in 1..Len(df.columns) |->
              IF df.columns[i] \in {Kakaku, ShuppinNichiji}
              THEN df.rows[r].cells[i]
              ELSE AsTypeStr(df.rows[r].cells[i])]]]]

\* ------------------------------------------------------- check_password
users == [admin |-> "ebay2024", user1 |-> "password1", ebay2024 |-> "password1"]

NoSession == [key \in {} |-> FALSE]

\* (mutant) the password is looked up among all passwords of the table
CredentialsMatch_AnyPassword(username, password) ==
  username \in DOMAIN users /\ \E name \in DOMAIN users : users[name] = password

\* username in users and users[username] == password
CredentialsMatch(username, password) ==
  username \in DOMAIN users /\ users[username] = password

\* (mutant) the flag is set to False at the top of every run
check_password_Reinit(session_state, username, password, login_pressed) ==
  IF login_pressed
  THEN IF username \in DOMAIN users /\ users[username] = password
       THEN [result |-> TRUE, session_state |-> [authenticated |-> TRUE],
             form |-> TRUE, pressed |-> TRUE, error |-> FALSE]
       ELSE [result |-> FALSE, session_state |-> [authenticated |-> FALSE],
             form |-> TRUE, pressed |-> TRUE, error |-> TRUE]
  ELSE [result |-> FALSE, session_state |-> [authenticated |-> FALSE],
        form |-> TRUE, pressed |-> FALSE, error |-> FALSE]

\* check_password: its return value, the session state it leaves, whether it
\* drew the login form (and so read the two inputs), whether the button
\* reported a press, and the error message.
check_password(session_state, username, password, login_pressed) ==
  IF "authenticated" \in DOMAIN session_state /\ session_state.authenticated
  THEN [result |-> TRUE, session_state |-> session_state,
        form |-> FALSE, pressed |-> FALSE, error |-> FALSE]
  ELSE IF login_pressed
  THEN IF CredentialsMatch(username, password)
       THEN [result |-> TRUE, session_state |-> [authenticated |-> TRUE],
             form |-> TRUE, pressed |-> TRUE, error |-> FALSE]
       ELSE [result |-> FALSE, session_state |-> [authenticated |-> FALSE],
             form |-> TRUE, pressed |-> TRUE, error |-> TRUE]
  ELSE [result |-> FALSE, session_state |-> [authenticated |-> FALSE],
        form |-> TRUE, pressed |-> FALSE, error |-> FALSE]

\* ------------------------------------------------------------------ main
NotCalled ==
  LoadResult("not_called", "", FALSE, NoEncodingTried, EmptyDF, NoSellers, << >>)

NoTable == << >>

\* What one run of the script drew and produced.  outcome is "stopped"
\* (st.stop), "done" (the script ran to its end) or "exception" (an exception
\* left main; raised_at names the statement).  A download is a table of rows, or
\* NoTable when its button was not drawn.
RunRecord(cp, outcome, raised_at, rendered, load, seller, term, an, out) ==
  [check |-> cp.result, login_pressed |-> cp.pressed,
   outcome |-> outcome, raised_at |-> raised_at,
   rendered |-> rendered, load |-> load, selected_seller |-> seller,
   search_term |-> term, analysis |-> an,
   filtered_df |-> out.filtered_df, product_list |-> out.product_list,
   excel |-> out.excel, csv |-> out.csv, amazon |-> out.amazon]

NoOutput ==
  [filtered_df |-> NoTable, product_list |-> NoTable,
   excel |-> NoTable, csv |-> NoTable, amazon |-> NoTable]

NoAnalysis == [ok |-> FALSE, df |-> EmptyDF, seller_df |-> EmptyDF]

\* str.contains(search_term, case=False) compiles the term as a regular
\* expression: a term with unbalanced parentheses, an open bracket or a leading
\* quantifier raises re.error; a term of letters and digits matches as text.
SearchRaises(search_term) ==
  \/ search_term[1] \in {"*", "+", "?"}
  \/ \E i \in 1..Len(search_term) : search_term[i] = "["
  \/ Cardinality({i \in 1..Len(search_term) : search_term[i] = "("})
       # Cardinality({i \in 1..Len(search_term) : search_term[i] = ")"})

\* filtered_df[display_columns].sort_values(Kakaku, ascending=False): larger
\* prices first, missing prices last, equal keys in their original order
SortByPriceDesc(columns, rows) ==
  LET p == ColumnAt(columns, Kakaku)
      Before(a, b) ==
        LET x == rows[a].cells[p]
            y == rows[b].cells[p]
        IN IF IsNaN(x) THEN IsNaN(y) /\ a < b
           ELSE IF IsNaN(y) THEN TRUE
           ELSE x.n > y.n \/ (x.n = y.n /\ a < b)
  IN [i \in 1..Len(rows) |->
        rows[CHOOSE a \in 1..Len(rows) :
               Cardinality({b \in 1..Len(rows) : Before(b, a)}) = i - 1]]

\* the product-list tab: the mask of lines 331-332 on a copy of seller_df
SearchFilter(columns, rows, search_term) ==
  LET p == ColumnAt(columns, ShohinMei)
      Hit(row) ==
        Contains(Lower(IF IsNaN(row.cells[p]) THEN << >> ELSE row.cells[p].s),
                 Lower(search_term))
  IN SelectSeq(rows, Hit)

\* the Amazon-research table: the mapped columns the table has, renamed
columns_mapping == <<
  [from |-> ShohinMei, to |-> <<"p","r","o","d","u","c","t","_","n","a","m","e">>],
  [from |-> Kakaku, to |-> <<"e","b","a","y","_","p","r","i","c","e">>],
  [from |-> Category, to |-> <<"c","a","t","e","g","o","r","y">>],
  [from |-> ColURL, to |-> <<"e","b","a","y","_","u","r","l">>],
  [from |-> ShuppinNichiji, to |-> <<"l","i","s","t","i","n","g","_","d","a","t","e">>],
  [from |-> Jotai, to |-> <<"c","o","n","d","i","t","i","o","n">>] >>

AmazonResearch(df) ==
  LET IsThere(m) == HasColumn(df.columns, m.from)
      sel == SelectSeq(columns_mapping, IsThere)
  IN [columns |-> [i \in 1..Len(sel) |-> sel[i].to],
      rows |-> [r \in 1..Len(df.rows) |->
                  [idx |-> df.rows[r].idx,
                   cells |-> [i \in 1..Len(sel) |->
                                df.rows[r].cells[ColumnAt(df.columns, sel[i].from)]]]]]

\* (mutant) the downloads are taken from the searched list
Downloads_Filtered(cols, filtered, prepared) ==
  [filtered_df |-> filtered,
   product_list |-> SortByPriceDesc(cols, filtered),
   excel |-> filtered,
   csv |-> filtered,
   amazon |-> IF HasColumn(cols, ShohinMei) /\ HasColumn(cols, Kakaku)
              THEN AmazonResearch([columns |-> cols, rows |-> filtered]).rows
              ELSE NoTable]

\* The downloads of the save tab and of the Amazon tab (lines 347-442), given
\* the table prepare_download_data left.
Downloads(cols, filtered, prepared) ==
  [filtered_df |-> filtered,
   product_list |-> SortByPriceDesc(cols, filtered),
   excel |-> prepared.rows,
   csv |-> prepare_download_data(prepared).rows,
   amazon |-> IF HasColumn(cols, ShohinMei) /\ HasColumn(cols, Kakaku)
              THEN AmazonResearch(prepare_download_data(prepared)).rows
              ELSE NoTable]

\* The tabs of one selected seller (lines 278-442), given what was drawn so
\* far and what analyze_seller returned.  A table that reaches the product-list
\* tab has a price column, so display_columns is not empty and the sort inside
\* the try of lines 334-343 does not raise.
Tabs(cp, ld, rendered, selected_seller, search_term, an) ==
  IF ~an.ok
  THEN RunRecord(cp, "exception", "analyze_seller", rendered, ld,
                 selected_seller, search_term, an, NoOutput)
  ELSE IF search_term # << >>
          /\ (~HasColumn(ld.df.columns, ShohinMei) \/ SearchRaises(search_term))
  THEN RunRecord(cp, "exception", "search",
                 rendered \cup {"tabs", "basic_info", "price_analysis", "search_box"},
                 ld, selected_seller, search_term, an, NoOutput)
  ELSE RunRecord(cp, "done", "",
                 rendered \cup {"tabs", "basic_info", "price_analysis", "search_box",
                                "product_list", "excel_download", "csv_download",
                                "json_download"}
                          \cup (IF HasColumn(ld.df.columns, ShohinMei)
                                   /\ HasColumn(ld.df.columns, Kakaku)
                                THEN {"amazon_download"} ELSE {"amazon_warning"}),
                 ld, selected_seller, search_term, an,
                 Downloads(ld.df.columns,
                           IF search_term # << >>
                           THEN SearchFilter(ld.df.columns, an.seller_df.rows,
                                             search_term)
                           ELSE an.seller_df.rows,
                           prepare_download_data(an.seller_df)))

SellerTabs(cp, ld, rendered, selected_seller, search_term) ==
  Tabs(cp, ld, rendered, selected_seller, search_term,
       analyze_seller(ld.df, selected_seller))

\* Lines 255-276: main after load_and_analyze_data returned or raised.
AfterLoad(cp, rendered, ld, selected_seller, search_term) ==
  IF ld.ret = "raise"
  THEN RunRecord(cp, "exception", "load_and_analyze_data",
                 rendered \cup {"load_error"}, ld, << >>, << >>,
                 NoAnalysis, NoOutput)
  ELSE IF ld.ret = "none"
  THEN RunRecord(cp, "done", "", rendered \cup {"load_error"}, ld,
                 << >>, << >>, NoAnalysis, NoOutput)
  ELSE IF DOMAIN ld.sellers # {} /\ ~HasColumn(ld.df.columns, Kakaku)
  THEN RunRecord(cp, "exception", "seller_info", rendered \cup {"preview"}, ld,
                 << >>, << >>, NoAnalysis, NoOutput)
  ELSE IF selected_seller = << >>
  THEN RunRecord(cp, "done", "",
                 rendered \cup {"preview", "seller_info", "seller_select"}, ld,
                 << >>, << >>, NoAnalysis, NoOutput)
  ELSE SellerTabs(cp, ld, rendered \cup {"preview", "seller_info", "seller_select"},
                  selected_seller, search_term)

\* Lines 241-253: main after check_password returned.
AfterCheck(cp, uploaded_file, selected_seller, search_term) ==
  IF ~cp.result
  THEN RunRecord(cp, "stopped", "",
                 (IF cp.form THEN {"login_form"} ELSE {})
                   \cup (IF cp.error THEN {"login_error"} ELSE {}),
                 NotCalled, << >>, << >>, NoAnalysis, NoOutput)
  ELSE IF uploaded_file = << >>
  THEN RunRecord(cp, "done", "",
                 (IF cp.form THEN {"login_form"} ELSE {}) \cup {"title", "uploader"},
                 NotCalled, << >>, << >>, NoAnalysis, NoOutput)
  ELSE AfterLoad(cp,
                 (IF cp.form THEN {"login_form"} ELSE {}) \cup {"title", "uploader"},
                 load_and_analyze_data(uploaded_file[1]),
                 selected_seller, search_term)

MainResult(cp, uploaded_file, selected_seller, search_term) ==
  [session_state |-> cp.session_state,
   run |-> AfterCheck(cp, uploaded_file, selected_seller, search_term)]

\* One run of the script, top to bottom.  uploaded_file is << >> or <<file>>;
\* selected_seller is what the select box returns (<< >> when it has no option).
main(session_state, u, p, login_pressed, uploaded_file, selected_seller, search_term) ==
  MainResult(check_password(session_state, u, p, login_pressed),
             uploaded_file, selected_seller, search_term)

\* ------------------------------------------------------------ the inputs
T(s) == Str(s)
SellerA == <<"a","l","i","c","e">>
SellerB == <<"b","o","b">>

HeaderPool == {
  <<"T","i","t","l","e">>,
  <<"I","t","e","m"," ","P","r","i","c","e">>,
  <<"P","r","i","c","e">>,
  <<"C","O","S","T">>,
  <<"S","e","l","l","e","r">>,
  <<"S","t","o","r","e"," ","N","a","m","e">>,
  <<"S","t","a","t","u","s">>,
  <<"U","p","d","a","t","e">>,
  <<"L","i","n","k">>,
  <<"I","D">>,
  <<"U5546","U54C1","U4FA1","U683C">>,
  <<"U4FA1","U683C">> }

\* header-only uploads: every list of up to MaxCols distinct headers
HeaderLists ==
  UNION { {h \in [1..n -> HeaderPool] : \A i, j \in 1..n : h[i] = h[j] => i = j}
          : n \in 1..MaxCols }

\* uploads with rows: a layout gives each column its header and its cells
Layouts == {
  << [h |-> <<"S","e","l","l","e","r">>, cells |-> {T(SellerA), T(SellerB)}],
     [h |-> <<"T","i","t","l","e">>, cells |-> {T(<<"X","y">>), NaN}],
     [h |-> <<"P","r","i","c","e">>,
      cells |-> {T(<<"0">>), T(<<"$","7",".","5">>)}] >>,
  << [h |-> <<"S","e","l","l","e","r">>, cells |-> {T(SellerA), NaN}],
     [h |-> <<"T","i","t","l","e">>, cells |-> {T(<<"X","y">>), T(<<"y","z">>)}] >>,
  << [h |-> <<"S","e","l","l","e","r">>, cells |-> {T(SellerA), NaN}],
     [h |-> <<"P","r","i","c","e">>,
      cells |-> {NaN, T(<<"1",".","2",".","3">>), T(<<"1","0">>), T(<<"-","1","2","0">>)}] >>,
  << [h |-> <<"T","i","t","l","e">>, cells |-> {T(<<"X","y">>)}],
     [h |-> <<"P","r","i","c","e">>, cells |-> {T(<<"0">>), T(<<"5">>)}] >>,
  << [h |-> <<"S","e","l","l","e","r">>, cells |-> {T(SellerA)}],
     [h |-> <<"P","r","i","c","e">>, cells |-> {T(<<"5">>)}],
     [h |-> <<"C","O","S","T">>, cells |-> {T(<<"1">>), NaN}] >>,
  << [h |-> <<"S","e","l","l","e","r">>, cells |-> {T(SellerA)}],
     [h |-> <<"D","a","t","e">>, cells |-> {T(<<"2","0","2","4">>)}],
     [h |-> <<"T","i","m","e">>, cells |-> {T(<<"n","o","o","n">>), NaN}] >>,
  << [h |-> <<"S","e","l","l","e","r">>, cells |-> {T(SellerB)}],
     [h |-> <<"T","i","t","l","e">>, cells |-> {T(<<"X","y">>)}],
     [h |-> <<"P","r","i","c","e">>, cells |-> {T(<<"9","9",".","9","9">>)}],
     [h |-> <<"C","o","n","d","i","t","i","o","n">>, cells |-> {T(<<"N","e","w">>), NaN}],
     [h |-> <<"D","a","t","e">>, cells |-> {T(<<"2","0","2","4">>), T(<<"s","o","o","n">>)}],
     [h |-> <<"U","R","L">>, cells |-> {T(<<"u">>)}],
     [h |-> <<"C","a","t","e","g","o","r","y">>, cells |-> {T(<<"T","o","y">>)}] >> }

RECURSIVE RowsOf(_)
RowsOf(layout) ==
  IF layout = << >> THEN { << >> }
  ELSE {<<c>> \o rest : c \in Head(layout).cells, rest \in RowsOf(Tail(layout))}

TablesOf(layout) ==
  {[headers |-> [i \in 1..Len(layout) |-> layout[i].h], rows |-> rows] :
     rows \in UNION {[1..n -> RowsOf(layout)] : n \in 1..MaxRows}}

Tables ==
  {[headers |-> h, rows |-> << >>] : h \in HeaderLists}
    \cup UNION {TablesOf(layout) : layout \in Layouts}

Encodings == {"utf-8-sig", "cp932", "shift-jis", "utf-8", "euc-jp"}

\* what chardet may report: nothing, one of the fixed candidates, another name
Detected == {"None", "utf-8", "euc-jp"}

PlainTable ==
  [headers |-> << <<"S","e","l","l","e","r">>, <<"T","i","t","l","e">>,
                  <<"P","r","i","c","e">> >>,
   rows |-> << <<T(SellerA), T(<<"X","y">>), T(<<"1","2">>)>> >>]

File(read_fails, detect_fails, detected, probe_ok, full_ok, table) ==
  [read_fails |-> read_fails, detect_fails |-> detect_fails,
   detected |-> detected, probe_ok |-> probe_ok, full_ok |-> full_ok,
   headers |-> table.headers, rows |-> table.rows]

\* The uploads of the model: every table read under utf-8-sig; one table
\* under every outcome of the candidate encodings (the full read succeeds only
\* where the header probe does); an upload whose read fails and one whose
\* encoding detection fails.
Files ==
  {File(FALSE, FALSE, "utf-8", Encodings, Encodings, t) : t \in Tables}
    \cup UNION {{File(FALSE, FALSE, d, p, f, PlainTable) :
                   d \in Detected, f \in SUBSET p} : p \in SUBSET Encodings}
    \cup {File(TRUE, FALSE, "None", {}, {}, PlainTable),
          File(FALSE, TRUE, "None", Encodings, Encodings, PlainTable)}

Usernames == {"", "admin", "ebay2024", "guest"}
Passwords == {"", "ebay2024", "password1"}
SearchTerms == { <<"x">>, <<"Z">>, <<"(">> }

\* ------------------------------------------------------------- the state
VARIABLES
  session_state,     \* st.session_state
  username,          \* the value of the user-name input
  password,          \* the value of the password input
  uploaded_file,     \* the file uploader: << >> or <<file>>
  selected_seller,   \* the value of the select box, << >> when it has none
  search_term,       \* the value of the search input
  run,               \* what the last run of the script drew and produced
  failed_attempts    \* history: the failed logins while the login form is on
                     \* the page, counted up to the bound

vars == <<session_state, username, password, uploaded_file, selected_seller,
          search_term, run, failed_attempts>>

NoRun ==
  RunRecord([result |-> FALSE, pressed |-> FALSE], "none", "", {}, NotCalled, << >>, << >>, NoAnalysis, NoOutput)

Init ==
  /\ session_state = NoSession
  /\ username = ""
  /\ password = ""
  /\ uploaded_file = << >>
  /\ selected_seller = << >>
  /\ search_term = << >>
  /\ run = NoRun
  /\ failed_attempts = 0

\* The state after one run of the script on the widget values given.  An input
\* that the run did not draw loses its value.
AfterRun(m, u, p, file, seller, term) ==
  /\ session_state' = m.session_state
  /\ run' = m.run
  /\ username' = IF "login_form" \in m.run.rendered THEN u ELSE ""
  /\ password' = IF "login_form" \in m.run.rendered THEN p ELSE ""
  /\ uploaded_file' = file
  /\ selected_seller' = IF "seller_select" \in m.run.rendered THEN seller ELSE << >>
  /\ search_term' = IF "search_box" \in m.run.rendered THEN term ELSE << >>
  /\ failed_attempts' =
       IF "login_form" \notin m.run.rendered THEN 0
       ELSE IF "login_error" \in m.run.rendered
               /\ failed_attempts < MaxFailedAttempts
       THEN failed_attempts + 1 ELSE failed_attempts

\* The script runs once; every user action below ends in such a run.
Rerun(u, p, login_pressed, file, seller, term) ==
  AfterRun(main(session_state, u, p, login_pressed, file, seller, term),
           u, p, file, seller, term)

\* the page is opened or reloaded, or a download button is pressed
Reload ==
  Rerun(username, password, FALSE, uploaded_file, selected_seller, search_term)

TypeUsername ==
  /\ "login_form" \in run.rendered
  /\ \E u \in Usernames \ {username} :
       Rerun(u, password, FALSE, uploaded_file, selected_seller, search_term)

TypePassword ==
  /\ "login_form" \in run.rendered
  /\ \E p \in Passwords \ {password} :
       Rerun(username, p, FALSE, uploaded_file, selected_seller, search_term)

PressLogin ==
  /\ "login_form" \in run.rendered
  /\ Rerun(username, password, TRUE, uploaded_file, selected_seller, search_term)

\* the sellers with the largest count: value_counts lists one of them first,
\* and a new select box returns its first option
FirstOptions(sellers) ==
  {s \in DOMAIN sellers : \A t \in DOMAIN sellers : sellers[t] <= sellers[s]}

\* what a new select box returns for the sellers of a load
FirstSelections(ld) ==
  IF ld.ret = "ok" /\ DOMAIN ld.sellers # {}
  THEN FirstOptions(ld.sellers) ELSE { << >> }

UploadFile ==
  /\ "uploader" \in run.rendered
  /\ uploaded_file = << >>
  /\ \E f \in Files :
       \E s \in FirstSelections(load_and_analyze_data(f)) :
         Rerun(username, password, FALSE, <<f>>, s, << >>)

ClearFile ==
  /\ "uploader" \in run.rendered
  /\ uploaded_file # << >>
  /\ Rerun(username, password, FALSE, << >>, << >>, << >>)

SelectSeller ==
  /\ "seller_select" \in run.rendered
  /\ \E s \in DOMAIN run.load.sellers \ {selected_seller} :
       Rerun(username, password, FALSE, uploaded_file, s, search_term)

TypeSearch ==
  /\ "search_box" \in run.rendered
  /\ \E t \in (SearchTerms \cup { << >> }) \ {search_term} :
       Rerun(username, password, FALSE, uploaded_file, selected_seller, t)

Next ==
  \/ Reload
  \/ TypeUsername
  \/ TypePassword
  \/ PressLogin
  \/ UploadFile
  \/ ClearFile
  \/ SelectSeller
  \/ TypeSearch

Spec == Init /\ [][Next]_vars

\* ================================================================ claims
Authenticated ==
  "authenticated" \in DOMAIN session_state /\ session_state.authenticated

\* the run of the state called load_and_analyze_data
LoadCalled == run.load.ret # "not_called"

\* the file the run of the state read
TheFile == uploaded_file[1]

\* the index labels of a table's rows, in order
Ids(rows) == [i \in 1..Len(rows) |-> rows[i].idx]

\* ---- C1
\* C1: for the selected seller, the counts of the eight price buckets sum to
\* the number of the seller's rows (sou_shuppin_su), whatever the cleaned
\* prices are, a price of 0 and a missing price included.
RECURSIVE C1_Sum(_, _)
C1_Sum(f, n) == IF n = 0 THEN 0 ELSE f[n] + C1_Sum(f, n - 1)

C1_BucketsSumToTotal ==
  run.analysis.ok =>
    C1_Sum(run.analysis.price_analysis, Len(price_labels))
      = run.analysis.stats.sou_shuppin_su

\* ---- C2
\* C2: every header is renamed to the canonical name of the first keyword
\* group, in the order product name, price, seller, condition, listing time,
\* URL, category, one of whose keywords occurs in the lower-cased header; a
\* header that matches no group keeps its name; the result for a header
\* depends on that header alone.
C2_GroupOrder ==
  <<ShohinMei, Kakaku, Shuppinsha, Jotai, ShuppinNichiji, ColURL, Category>>

C2_Expected(header) ==
  LET matching == {g \in 1..Len(C2_GroupOrder) :
                     \E kw \in KeywordGroups[g].keywords :
                       Contains(Lower(header), kw)}
  IN IF matching = {} THEN header
     ELSE C2_GroupOrder[CHOOSE g \in matching : \A h \in matching : g <= h]

C2_NormalizationPerHeader ==
  (LoadCalled /\ run.load.found) =>
    /\ Len(run.load.shown_columns) = Len(TheFile.headers)
    /\ \A i \in 1..Len(TheFile.headers) :
         run.load.shown_columns[i] = C2_Expected(TheFile.headers[i])

\* a price header before a header that holds a product and a price keyword
C2_Witness ==
  /\ LoadCalled /\ run.load.found
  /\ TheFile.headers = << <<"P","r","i","c","e">>,
                          <<"I","t","e","m"," ","P","r","i","c","e">> >>
  /\ run.load.shown_columns = <<Kakaku, ShohinMei>>

\* ---- C3
\* C3: every failure inside load_and_analyze_data is caught inside it: the
\* routine shows the error and returns (None, None), and no exception leaves
\* it for main.
C3_FailuresCaught ==
  (LoadCalled /\ run.load.failed_at # "") =>
    /\ run.load.error_shown
    /\ run.load.ret = "none"
    /\ run.raised_at # "load_and_analyze_data"

\* ---- C4
\* C4: protected content is drawn in a run only if check_password returned
\* True in that run; a run that fails the check stops with nothing drawn
\* beyond the login form; and the flag becomes True only in a run that pressed
\* the login button with a user name of the table and that name's password.
C4_Protected ==
  {"title", "uploader", "preview", "seller_info", "seller_select", "tabs",
   "basic_info", "price_analysis", "search_box", "product_list",
   "excel_download", "csv_download", "json_download", "amazon_download",
   "amazon_warning", "load_error"}

C4_Table ==
  { <<"admin", "ebay2024">>, <<"user1", "password1">>, <<"ebay2024", "password1">> }

C4_ProtectedOnlyAfterLogin ==
  /\ [](/\ (run.rendered \cap C4_Protected # {} => run.check)
        /\ ((run.outcome # "none" /\ ~run.check) =>
              /\ run.outcome = "stopped"
              /\ run.rendered \subseteq {"login_form", "login_error"})
        /\ (Authenticated => run.check))
  /\ [][(~Authenticated /\ Authenticated') =>
          /\ run'.login_pressed
          /\ <<username', password'>> \in C4_Table]_vars

C4_Witness ==
  /\ Authenticated /\ run.check
  /\ {"uploader", "tabs", "excel_download", "amazon_download"} \subseteq run.rendered

\* ---- C5
\* C5: once the flag is True it stays True and every later run passes the
\* check without drawing the login form; while it is False a failed attempt
\* leaves the session state as it was, and an attempt with a pair of the table
\* sets it, however many attempts failed before.
C5_MonotoneUnlimited ==
  [][/\ (Authenticated =>
           /\ Authenticated'
           /\ run'.check
           /\ "login_form" \notin run'.rendered)
     /\ (("authenticated" \in DOMAIN session_state /\ ~Authenticated
            /\ "login_error" \in run'.rendered) =>
           session_state' = session_state)
     /\ ((~Authenticated /\ run'.login_pressed
            /\ <<username', password'>> \in C4_Table) =>
           Authenticated')]_vars

\* a login that succeeded after the largest counted number of failures
C5_Witness ==
  /\ Authenticated
  /\ run.login_pressed
  /\ failed_attempts = MaxFailedAttempts

\* ---- C6
\* C6: the candidates are tried in the order utf-8-sig, cp932, shift-jis,
\* utf-8, detected encoding (left out when nothing was detected); the first
\* one whose header probe and full read both succeed supplies the table and
\* none after it is tried; the loop raises only when every candidate failed,
\* with one failure line for each candidate tried.
C6_Candidates(file) ==
  LET Known(e) == e # "None"
  IN SelectSeq(<<"utf-8-sig", "cp932", "shift-jis", "utf-8", file.detected>>, Known)

C6_Reads(file, e) == e \in file.probe_ok /\ e \in file.full_ok

C6_EncodingOrder ==
  (LoadCalled /\ run.load.failed_at \notin {"read", "detect"}) =>
    LET tried == run.load.attempted
        cands == C6_Candidates(TheFile)
    IN /\ Len(tried) <= Len(cands)
       /\ \A i \in 1..Len(tried) : tried[i] = cands[i]
       /\ run.load.found =>
            /\ Len(tried) >= 1
            /\ run.load.enc = tried[Len(tried)]
            /\ C6_Reads(TheFile, run.load.enc)
            /\ \A i \in 1..(Len(tried) - 1) : ~C6_Reads(TheFile, tried[i])
            /\ Len(run.load.error_messages) = Len(tried) - 1
            /\ run.load.failed_at # "encodings"
       /\ ~run.load.found =>
            /\ tried = cands
            /\ \A i \in 1..Len(tried) : ~C6_Reads(TheFile, tried[i])
            /\ run.load.error_messages = tried
            /\ run.load.failed_at = "encodings"
            /\ run.load.ret = "none"

\* the detected encoding supplied the table after the four fixed ones failed
C6_Witness ==
  /\ LoadCalled /\ run.load.found
  /\ run.load.enc = "euc-jp"
  /\ Len(run.load.attempted) = 5
  /\ Len(run.load.error_messages) = 4

\* ---- C7
\* C7: every download (Excel, CSV, Amazon CSV) holds exactly the rows of the
\* uploaded table whose seller is the selected seller, as many as
\* sou_shuppin_su; the search term narrows only the list shown; and
\* analyze_seller leaves the full table as it was.
C7_SellerIds ==
  LET p == ColumnAt(run.load.df.columns, Shuppinsha)
      Mine(r) == TheFile.rows[r] [p] = Str(run.selected_seller)
  IN SelectSeq([r \in 1..Len(TheFile.rows) |-> r], Mine)

C7_DownloadsAreSellerRows ==
  ("excel_download" \in run.rendered) =>
    /\ Ids(run.excel) = C7_SellerIds
    /\ Ids(run.csv) = C7_SellerIds
    /\ ("amazon_download" \in run.rendered => Ids(run.amazon) = C7_SellerIds)
    /\ run.analysis.stats.sou_shuppin_su = Len(C7_SellerIds)
    /\ Len(run.filtered_df) <= Len(C7_SellerIds)
    /\ Len(run.product_list) = Len(run.filtered_df)
    /\ \A i \in 1..Len(run.filtered_df) :
         \E j \in 1..Len(C7_SellerIds) : run.filtered_df[i].idx = C7_SellerIds[j]
    /\ run.analysis.df = run.load.df

\* a search that hides a row of the seller, in a table with another seller
C7_Witness ==
  /\ "amazon_download" \in run.rendered
  /\ run.search_term # << >>
  /\ Len(run.filtered_df) < Len(run.excel)
  /\ Len(run.excel) < Len(TheFile.rows)

\* ---- C8
\* C8: for an upload that load_and_analyze_data returned, whatever canonical
\* columns it has, a run of main for any seller and any search term ends
\* without an unhandled exception.
C8_RunCompletes ==
  (LoadCalled /\ run.load.ret = "ok") => run.outcome = "done"

\* ---- C9
\* C9: when two or more headers normalize to the price column, the load
\* returns the table, the first of them is the column named Kakaku and each
\* later one is named Kakaku_1, Kakaku_2, ... in order.
C9_PricePositions == ColumnPositions(run.load.shown_columns, Kakaku)

C9_FirstPriceKept ==
  (LoadCalled /\ run.load.found /\ Cardinality(C9_PricePositions) >= 2
     /\ run.load.failed_at # "to_datetime") =>
    /\ run.load.ret = "ok"
    /\ \A i \in C9_PricePositions :
         LET k == Cardinality({j \in C9_PricePositions : j < i})
         IN run.load.df.columns[i] =
              IF k = 0 THEN Kakaku ELSE Kakaku \o <<"_", DigitChars[k + 1]>>

\* ---- C10
\* C10: price cleaning never fails the load and never drops a row: whenever the
\* load reaches the price processing it returns the table, with as many rows as
\* were read, and every price is missing or a number >= 0.
C10_CleaningNeverFails ==
  (LoadCalled /\ run.load.found /\ run.load.failed_at # "to_datetime") =>
    /\ run.load.ret = "ok"
    /\ Len(run.load.df.rows) = Len(TheFile.rows)
    /\ HasColumn(run.load.df.columns, Kakaku) =>
         \A r \in 1..Len(run.load.df.rows) :
           LET c == run.load.df.rows[r].cells[ColumnAt(run.load.df.columns, Kakaku)]
           IN c.k = "nan" \/ (c.k = "num" /\ c.n >= 0)

====
